---------------------------- MODULE Spec2Model ----------------------------
(***************************************************************************)
(* A model of inventory-invoice-system.py: the discount engine             *)
(* (Product.get_price and the DiscountRule classes), the access gate       *)
(* (Role.get_permissions, InventorySystem.check_permission and             *)
(* authenticate_user), the two invoice-driven reports and the menu loop of *)
(* main().                                                                 *)
(*                                                                         *)
(* Python floats are modelled as exact rationals [n, d] in lowest terms    *)
(* with d > 0: the model states what the arithmetic computes and leaves    *)
(* IEEE-754 rounding out.  Money amounts stored on invoices are integers.  *)
(* A Python dict is modelled in its insertion order: a sequence of keys    *)
(* and a function from the keys to the values.                             *)
(***************************************************************************)
EXTENDS Integers, Sequences, FiniteSets, TLC

VARIABLES
    products,      \* InventorySystem.products  : id -> Product
    customers,     \* InventorySystem.customers : id -> Customer
    invoices,      \* InventorySystem.invoices  : the dict's values, in dict order
    users,         \* InventorySystem.users     : username -> User
    current_user,  \* main(): the local current_user (a username of users, or None)
    pc,            \* the position of the code that is running
    stdin,         \* what the last step of main() read from input()
    stdout,        \* what the last step of main() printed
    files,         \* the files the exports have written: name -> content
    call,          \* the arguments of the member function being called
    price,         \* Product.get_price: the local price
    rule_i,        \* Product.get_price: the position of "for rule in ..."
    ret            \* what the called member function returned

vars == <<products, customers, invoices, users, current_user, pc, stdin,
          stdout, files, call, price, rule_i, ret>>

system == <<products, customers, invoices, users>>

None == "None"

\* The sum of the values of a function with a finite domain.
RECURSIVE FSum(_)
FSum(f) ==
    IF DOMAIN f = {} THEN 0
    ELSE LET x == CHOOSE x \in DOMAIN f : TRUE
         IN  f[x] + FSum([y \in DOMAIN f \ {x} |-> f[y]])

\* The elements of a finite set, in an order.
RECURSIVE SeqOf(_)
SeqOf(S) ==
    IF S = {} THEN << >>
    ELSE LET x == CHOOSE x \in S : TRUE
         IN  <<x>> \o SeqOf(S \ {x})

-----------------------------------------------------------------------------
(* Bounds of the model.                                                    *)

MaxRules == 3      \* the longest discount_rules list of a product
MaxInvoices == 2   \* the number of invoices of a loaded snapshot
MaxItems == 2      \* the number of invoice items of a loaded snapshot

-----------------------------------------------------------------------------
(* float arithmetic, exact.                                                *)

Abs(x) == IF x < 0 THEN -x ELSE x

RECURSIVE GCD(_, _)
GCD(a, b) == IF b = 0 THEN a ELSE GCD(b, a % b)

\* n / d for d > 0, in lowest terms
Rat(n, d) ==
    LET g == GCD(Abs(n), d)
    IN  [n |-> n \div g, d |-> d \div g]

FromInt(k) == [n |-> k, d |-> 1]

RatMul(a, b) == Rat(a.n * b.n, a.d * b.d)

RatSub(a, b) == Rat(a.n * b.d - b.n * a.d, a.d * b.d)

\* a / b of Python: ZeroDivisionError when b is zero
RatDiv(a, b) ==
    IF b.n = 0 THEN "ZeroDivisionError"
    ELSE IF b.n < 0 THEN Rat(-(a.n * b.d), a.d * (-b.n))
    ELSE Rat(a.n * b.d, a.d * b.n)

LCM(a, b) == (a \div GCD(a, b)) * b

RatLeq(a, b) ==
    LET l == LCM(a.d, b.d)
    IN  a.n * (l \div a.d) <= b.n * (l \div b.d)

RatLt(a, b) == RatLeq(a, b) /\ a # b

-----------------------------------------------------------------------------
(* Pricing and discount rules.                                             *)

PercentageDiscount(percentage) ==
    [class |-> "PercentageDiscount", percentage |-> percentage]

BulkDiscount(threshold, percentage) ==
    [class |-> "BulkDiscount", threshold |-> threshold,
     percentage |-> percentage]

PercentageDiscount_apply_Amount(self, subtotal) ==
    RatMul(subtotal, Rat(self.percentage, 100))

PercentageDiscount_apply_Surcharge(self, subtotal) ==
    RatMul(subtotal, Rat(100 + self.percentage, 100))

\* subtotal * (1 - self.percentage / 100)
PercentageDiscount_apply(self, subtotal) ==
    RatMul(subtotal, RatSub(FromInt(1), Rat(self.percentage, 100)))

BulkDiscount_apply_Strict(self, subtotal, quantity) ==
    IF quantity > self.threshold
    THEN RatMul(subtotal, RatSub(FromInt(1), Rat(self.percentage, 100)))
    ELSE subtotal

BulkDiscount_apply(self, subtotal, quantity) ==
    IF quantity >= self.threshold
    THEN RatMul(subtotal, RatSub(FromInt(1), Rat(self.percentage, 100)))
    ELSE subtotal

\* The inputs of the pricing calls.
Percentages == {0, 10, 20, 100, 150}
Thresholds == {5}
Prices == {0, 100}
Quantities == {1, 4, 5}

DiscountRules ==
    {PercentageDiscount(p) : p \in Percentages}
        \cup {BulkDiscount(t, p) : t \in Thresholds, p \in Percentages}

RuleLists == UNION {[1..k -> DiscountRules] : k \in 0..MaxRules}

PricedProducts ==
    [price : Prices, discount_rules : RuleLists]

\* The variables the pricing calls leave alone.
NoProgram ==
    /\ products = << >>
    /\ customers = << >>
    /\ invoices = << >>
    /\ users = << >>
    /\ current_user = None
    /\ stdin = << >>
    /\ stdout = << >>
    /\ files = << >>

\* A call product.get_price(quantity) about to run.
InitPrice ==
    /\ NoProgram
    /\ call \in [self : PricedProducts, quantity : Quantities]
    /\ pc = "get_price:107"
    /\ price = FromInt(0)
    /\ rule_i = 0
    /\ ret = FromInt(0)

\* price = self.price * quantity
get_price_107 ==
    /\ pc = "get_price:107"
    /\ price' = RatMul(FromInt(call.self.price), FromInt(call.quantity))
    /\ rule_i' = 1
    /\ pc' = "get_price:108"
    /\ UNCHANGED <<system, current_user, stdin, stdout, files, call, ret>>

\* one iteration of "for rule in self.discount_rules"
get_price_108 ==
    /\ pc = "get_price:108"
    /\ rule_i <= Len(call.self.discount_rules)
    /\ LET rule == call.self.discount_rules[rule_i]
       IN  price' = IF rule.class = "BulkDiscount"
                    THEN BulkDiscount_apply(rule, price, call.quantity)
                    ELSE PercentageDiscount_apply(rule, price)
    /\ rule_i' = rule_i + 1
    /\ UNCHANGED <<system, current_user, pc, stdin, stdout, files, call, ret>>

\* return price
get_price_113 ==
    /\ pc = "get_price:108"
    /\ rule_i > Len(call.self.discount_rules)
    /\ ret' = price
    /\ pc' = "get_price:returned"
    /\ UNCHANGED <<system, current_user, stdin, stdout, files, call, price,
                   rule_i>>

NextPrice == get_price_107 \/ get_price_108 \/ get_price_113

SpecPrice == InitPrice /\ [][NextPrice]_vars

\* The arguments of the call, and self.price * quantity.
Rules == call.self.discount_rules
BasePrice == FromInt(call.self.price * call.quantity)
InLoop == pc \in {"get_price:108", "get_price:returned"}

\* Whether a rule takes effect at a quantity, and what it multiplies by.
Applies(rule, quantity) ==
    rule.class = "PercentageDiscount" \/ quantity >= rule.threshold

Factor(rule) == Rat(100 - rule.percentage, 100)

\* The product of the factors of the rules of a list that take effect.
RECURSIVE Factors(_, _)
Factors(rules, quantity) ==
    IF rules = << >> THEN FromInt(1)
    ELSE RatMul(IF Applies(Head(rules), quantity)
                THEN Factor(Head(rules)) ELSE FromInt(1),
                Factors(Tail(rules), quantity))

\* C1: get_price starts from price * quantity and applies the rules in list
\* order, each multiplying the running price by (1 - percentage/100): after
\* the first k rules the running price is price * quantity times the product
\* of their factors, and so is the result; two 10% rules give 81% of
\* price * quantity, not 80%, and price 100, [Percentage(10), Bulk(5, 20)],
\* quantity 5 gives 360.
C1_Multiplicative ==
    /\ InLoop =>
          price = RatMul(BasePrice,
                         Factors(SubSeq(Rules, 1, rule_i - 1), call.quantity))
    /\ pc = "get_price:returned" =>
          /\ ret = RatMul(BasePrice, Factors(Rules, call.quantity))
          /\ Rules = <<PercentageDiscount(10), PercentageDiscount(10)>> =>
                /\ ret = Rat(81 * call.self.price * call.quantity, 100)
                /\ call.self.price # 0 =>
                      ret # Rat(80 * call.self.price * call.quantity, 100)
          /\ ( /\ call.self.price = 100
               /\ Rules = <<PercentageDiscount(10), BulkDiscount(5, 20)>>
               /\ call.quantity = 5 ) => ret = FromInt(360)

C1_Witness ==
    /\ pc = "get_price:returned"
    /\ call.self.price = 100
    /\ Rules = <<PercentageDiscount(10), BulkDiscount(5, 20)>>
    /\ call.quantity = 5
    /\ ret = FromInt(360)

\* C2: in get_price a BulkDiscount rule applies its discount to the running
\* price if and only if quantity >= threshold, and leaves the running price
\* as it is otherwise; where the discount is not void (a percentage other
\* than 0, a running price other than 0) the running price changes exactly
\* when quantity >= threshold.
C2_BulkThreshold ==
    [][ ( /\ pc = "get_price:108"
          /\ rule_i <= Len(Rules)
          /\ Rules[rule_i].class = "BulkDiscount" ) =>
        LET rule == Rules[rule_i]
        IN  /\ price' = IF call.quantity >= rule.threshold
                        THEN RatMul(price, Factor(rule))
                        ELSE price
            /\ (rule.percentage # 0 /\ price.n # 0) =>
                  ((price' # price) <=> (call.quantity >= rule.threshold))
      ]_vars

C2_Witness ==
    /\ pc = "get_price:108"
    /\ call.self.price = 100
    /\ call.quantity = 5
    /\ Len(Rules) >= 1
    /\ Rules[1] = BulkDiscount(5, 20)
    /\ rule_i = 2
    /\ price = FromInt(400)

\* C6: the price get_price computes is never negative, whatever the rules
\* (a percentage above 100 included).
C6_NeverNegative == InLoop => price.n >= 0

\* The rules of the call are discounts: every percentage is in 0..100.
DiscountsOnly == \A i \in 1..Len(Rules) : Rules[i].percentage \in 0..100

\* C7: with percentages in 0..100 the price of get_price never exceeds
\* price * quantity, and every further rule of the list leaves the running
\* price where it is or lowers it.
C7_NonIncreasing ==
    /\ [](DiscountsOnly /\ InLoop => RatLeq(price, BasePrice))
    /\ [][DiscountsOnly /\ pc = "get_price:108" => RatLeq(price', price)]_vars

C7_Witness ==
    /\ pc = "get_price:returned"
    /\ DiscountsOnly
    /\ Len(Rules) >= 2
    /\ RatLt(ret, BasePrice)
    /\ ret.n > 0

-----------------------------------------------------------------------------
(* The domain model and the loaded snapshot.                               *)

DefaultReorderLevel == 10

\* Product(id, name, price, quantity, category, discount_rules=...)
Product(id, name, price_, quantity, category, discount_rules) ==
    [id |-> id, name |-> name, price |-> price_, quantity |-> quantity,
     category |-> category, reorder_level |-> DefaultReorderLevel,
     discount_rules |-> discount_rules]

\* The fields of Customer, InvoiceItem and Invoice that the reports read.
Customer(id, name) == [id |-> id, name |-> name]

InvoiceItem(product_id, quantity, total) ==
    [product_id |-> product_id, quantity |-> quantity, total |-> total]

RECURSIVE SumTotals(_)
SumTotals(items) ==
    IF items = << >> THEN 0 ELSE Head(items).total + SumTotals(Tail(items))

\* paid_at is a day number, 0 for an invoice that is not paid
Invoice(customer_id, status, items, paid_at) ==
    [customer_id |-> customer_id, status |-> status, items |-> items,
     total |-> SumTotals(items), paid_at |-> paid_at]

InvoiceStatus == {"DRAFT", "PAID", "CANCELLED"}

\* User(username, password, role), with the SHA-256 digest of a password
\* modelled as a value that is the same for the same password only.
User_hash_password(password) == [sha256 |-> password]

User(username, password, role) ==
    [username |-> username, password_hash |-> User_hash_password(password),
     role |-> role]

\* The catalogue, the customers and the users every snapshot holds: one
\* product at its reorder level and one above it; one user of each role of
\* the table and one of a role that is not in it.
LoadedProducts ==
    "P1" :> Product("P1", "Widget", 100, 10, "HARDWARE",
                    <<PercentageDiscount(10), BulkDiscount(5, 20)>>)
    @@ "P2" :> Product("P2", "Gadget", 60, 11, "TOOLS", << >>)

LoadedCustomers ==
    "C1" :> Customer("C1", "Ann") @@ "C2" :> Customer("C2", "Ben")

LoadedUsers ==
    "alice" :> User("alice", "pw-a", "admin")
    @@ "bob" :> User("bob", "pw-b", "manager")
    @@ "carol" :> User("carol", "pw-c", "staff")
    @@ "dave" :> User("dave", "pw-d", "guest")

\* The invoice items of the snapshots: a quantity and the total stored with
\* it, which is not the product's current price times the quantity.
LoadedItems ==
    {InvoiceItem(p, 1, 50) : p \in DOMAIN LoadedProducts}
        \cup {InvoiceItem(p, 2, 150) : p \in DOMAIN LoadedProducts}

\* The number of items before invoice i, given the number in each invoice.
RECURSIVE ItemsBefore(_, _)
ItemsBefore(counts, i) ==
    IF i = 1 THEN 0 ELSE ItemsBefore(counts, i - 1) + counts[i - 1]

\* What load_data() leaves in self.invoices: invoice i of customer
\* headers[i][1] in status headers[i][2], holding counts[i] items, the
\* items of all the invoices being given in one list; a PAID invoice was
\* paid on day 1.
load_data(headers, counts, items) ==
    [i \in 1..Len(headers) |->
        Invoice(headers[i][1], headers[i][2],
                SubSeq(items, ItemsBefore(counts, i) + 1,
                       ItemsBefore(counts, i) + counts[i]),
                IF headers[i][2] = "PAID" THEN 1 ELSE 0)]

-----------------------------------------------------------------------------
(* The reports.  A report is modelled by the rows its text is printed      *)
(* from, in the order of the text, with the key of the dict each row comes *)
(* from; raised is the exception that ended the call, or None.             *)

EmptyDict == [keys |-> << >>, val |-> [k \in {} |-> 0]]

Returned(rows) == [raised |-> None, rows |-> rows]
Raised(exception) == [raised |-> exception, rows |-> << >>]

\* lines 160-164: product_sales and product_revenue after one more item
perf_item(acc, item) ==
    LET pid == item.product_id
        old == IF pid \in DOMAIN acc.val THEN acc.val[pid]
               ELSE [sales |-> 0, revenue |-> 0]
        new == [sales |-> old.sales + item.quantity,
                revenue |-> old.revenue + item.total]
    IN  [keys |-> IF pid \in DOMAIN acc.val THEN acc.keys
                  ELSE Append(acc.keys, pid),
         val |-> (pid :> new) @@ acc.val]

\* line 159: for item in invoice.items
RECURSIVE perf_items(_, _)
perf_items(acc, items) ==
    IF items = << >> THEN acc
    ELSE perf_items(perf_item(acc, Head(items)), Tail(items))

perf_invoice_AnyStatus(acc, invoice) == perf_items(acc, invoice.items)

\* lines 158-164: the body of the loop over the invoices
perf_invoice(acc, invoice) ==
    IF invoice.status = "PAID" THEN perf_items(acc, invoice.items) ELSE acc

\* line 157: for invoice in self.invoices.values()
RECURSIVE perf_invoices(_, _)
perf_invoices(acc, invs) ==
    IF invs = << >> THEN acc
    ELSE perf_invoices(perf_invoice(acc, Head(invs)), Tail(invs))

\* lines 167-174: one row for each key of product_sales
generate_product_performance_report ==
    LET acc == perf_invoices(EmptyDict, invoices)
    IN  IF \E i \in 1..Len(acc.keys) : acc.keys[i] \notin DOMAIN products
        THEN Raised("KeyError")
        ELSE Returned(
               [i \in 1..Len(acc.keys) |->
                  LET product_id == acc.keys[i]
                      product == products[product_id]
                  IN  [product_id |-> product_id,
                       name |-> product.name,
                       units_sold |-> acc.val[product_id].sales,
                       revenue |-> acc.val[product_id].revenue,
                       current_stock |-> product.quantity,
                       warning |->
                           product.quantity <= product.reorder_level]])

\* line 196: sum(item.quantity for item in invoice.items)
RECURSIVE SumQuantities(_)
SumQuantities(items) ==
    IF items = << >> THEN 0
    ELSE Head(items).quantity + SumQuantities(Tail(items))

cust_invoice_AnyStatus(acc, invoice) ==
    LET cid == invoice.customer_id
        old == IF cid \in DOMAIN acc.val THEN acc.val[cid]
               ELSE [total_spent |-> 0, total_invoices |-> 0,
                     items_bought |-> 0]
        paid == invoice.status = "PAID"
        new == [total_spent |->
                    old.total_spent + (IF paid THEN invoice.total ELSE 0),
                total_invoices |->
                    old.total_invoices + (IF paid THEN 1 ELSE 0),
                items_bought |->
                    old.items_bought
                        + (IF paid THEN SumQuantities(invoice.items) ELSE 0)]
    IN  [keys |-> IF cid \in DOMAIN acc.val THEN acc.keys
                  ELSE Append(acc.keys, cid),
         val |-> (cid :> new) @@ acc.val]

\* lines 185-196: the body of the loop over the invoices
cust_invoice(acc, invoice) ==
    IF invoice.status = "PAID"
    THEN LET cid == invoice.customer_id
             old == IF cid \in DOMAIN acc.val THEN acc.val[cid]
                    ELSE [total_spent |-> 0, total_invoices |-> 0,
                          items_bought |-> 0]
             new == [total_spent |-> old.total_spent + invoice.total,
                     total_invoices |-> old.total_invoices + 1,
                     items_bought |->
                         old.items_bought + SumQuantities(invoice.items)]
         IN  [keys |-> IF cid \in DOMAIN acc.val THEN acc.keys
                       ELSE Append(acc.keys, cid),
              val |-> (cid :> new) @@ acc.val]
    ELSE acc

\* line 184: for invoice in self.invoices.values()
RECURSIVE cust_invoices(_, _)
cust_invoices(acc, invs) ==
    IF invs = << >> THEN acc
    ELSE cust_invoices(cust_invoice(acc, Head(invs)), Tail(invs))

\* lines 199-205: one row for each key of customer_purchases
generate_customer_analysis_report ==
    LET acc == cust_invoices(EmptyDict, invoices)
        n == Len(acc.keys)
    IN  IF \E i \in 1..n : acc.keys[i] \notin DOMAIN customers
        THEN Raised("KeyError")
        ELSE IF \E i \in 1..n : acc.val[acc.keys[i]].total_invoices = 0
        THEN Raised("ZeroDivisionError")
        ELSE Returned(
               [i \in 1..n |->
                  LET customer_id == acc.keys[i]
                      stats == acc.val[customer_id]
                  IN  [customer_id |-> customer_id,
                       name |-> customers[customer_id].name,
                       total_spent |-> stats.total_spent,
                       total_invoices |-> stats.total_invoices,
                       items_bought |-> stats.items_bought,
                       average |-> RatDiv(FromInt(stats.total_spent),
                                          FromInt(stats.total_invoices))]])

\* The InventorySystem after __init__, with the reports about to be called.
InitReport ==
    /\ products = LoadedProducts
    /\ customers = LoadedCustomers
    /\ \E n \in 0..MaxInvoices :
         \E headers \in [1..n -> (DOMAIN LoadedCustomers) \X InvoiceStatus] :
           \E counts \in [1..n -> 0..MaxItems] :
             /\ ItemsBefore(counts, n + 1) <= MaxItems
             /\ \E items \in [1..ItemsBefore(counts, n + 1) -> LoadedItems] :
                  invoices = load_data(headers, counts, items)
    /\ users = LoadedUsers
    /\ current_user = None
    /\ pc = "InventorySystem"
    /\ stdin = << >>
    /\ stdout = << >>
    /\ files = << >>
    /\ call = "__init__"
    /\ price = FromInt(0)
    /\ rule_i = 0
    /\ ret = Returned(<< >>)

call_product_performance_Restock ==
    /\ pc = "InventorySystem"
    /\ call' = "generate_product_performance_report"
    /\ ret' = generate_product_performance_report
    /\ products' = [p \in DOMAIN products |->
                      IF products[p].quantity <= products[p].reorder_level
                      THEN [products[p] EXCEPT !.quantity =
                                2 * products[p].reorder_level]
                      ELSE products[p]]
    /\ UNCHANGED <<customers, invoices, users, current_user, pc, stdin,
                   stdout, files, price, rule_i>>

\* system.generate_product_performance_report()
call_product_performance ==
    /\ pc = "InventorySystem"
    /\ call' = "generate_product_performance_report"
    /\ ret' = generate_product_performance_report
    /\ UNCHANGED <<system, current_user, pc, stdin, stdout, files, price,
                   rule_i>>

\* system.generate_customer_analysis_report()
call_customer_analysis ==
    /\ pc = "InventorySystem"
    /\ call' = "generate_customer_analysis_report"
    /\ ret' = generate_customer_analysis_report
    /\ UNCHANGED <<system, current_user, pc, stdin, stdout, files, price,
                   rule_i>>

NextReport == call_product_performance \/ call_customer_analysis

SpecReport == InitReport /\ [][NextReport]_vars

\* The places <<invoice, item>> of the items of PAID invoices that
\* reference a product, and the places of the PAID invoices of a customer.
PaidItems(pid) ==
    UNION {{<<i, j>> : j \in {k \in 1..Len(invoices[i].items) :
                                 invoices[i].items[k].product_id = pid}}
           : i \in {k \in 1..Len(invoices) : invoices[k].status = "PAID"}}

PaidInvoices(cid) ==
    {i \in 1..Len(invoices) :
        invoices[i].status = "PAID" /\ invoices[i].customer_id = cid}

OneRowPerKey(keys) ==
    \A i, j \in 1..Len(keys) : keys[i] = keys[j] => i = j

\* C3: the product performance report has a row exactly for the products
\* that an item of a PAID invoice references, one row each; its units sold
\* are the sum of item.quantity and its revenue the sum of the stored
\* item.total over the items of PAID invoices that reference the product.
C3_PerformancePaidOnly ==
    call = "generate_product_performance_report" =>
        /\ ret.raised = None
        /\ OneRowPerKey([i \in 1..Len(ret.rows) |-> ret.rows[i].product_id])
        /\ \A pid \in DOMAIN products :
              (\E i \in 1..Len(ret.rows) : ret.rows[i].product_id = pid)
                  <=> PaidItems(pid) # {}
        /\ \A i \in 1..Len(ret.rows) :
              LET at == PaidItems(ret.rows[i].product_id)
              IN  /\ ret.rows[i].units_sold =
                        FSum([x \in at |->
                                invoices[x[1]].items[x[2]].quantity])
                  /\ ret.rows[i].revenue =
                        FSum([x \in at |->
                                invoices[x[1]].items[x[2]].total])

C3_Witness ==
    /\ call = "generate_product_performance_report"
    /\ Len(invoices) = 2
    /\ invoices[1].status = "PAID"
    /\ invoices[1].items = <<InvoiceItem("P1", 2, 150)>>
    /\ invoices[2].status = "DRAFT"
    /\ invoices[2].items = <<InvoiceItem("P2", 1, 50)>>
    /\ Len(ret.rows) = 1
    /\ ret.rows[1].product_id = "P1"
    /\ ret.rows[1].units_sold = 2
    /\ ret.rows[1].revenue = 150

\* Two PAID invoices of one customer, of 150 and of 50, with 3 items.
C4_Example ==
    <<Invoice("C1", "PAID", <<InvoiceItem("P1", 2, 150)>>, 1),
      Invoice("C1", "PAID", <<InvoiceItem("P2", 1, 50)>>, 1)>>

\* C4: the customer analysis report has a row exactly for the customers
\* with a PAID invoice, one row each; total spent, number of invoices and
\* items bought are sums over the customer's PAID invoices, the number of
\* invoices is at least 1, no division by zero ends the report and the
\* average times the number of invoices is the total spent.
C4_CustomerAnalysis ==
    call = "generate_customer_analysis_report" =>
        /\ ret.raised = None
        /\ OneRowPerKey([i \in 1..Len(ret.rows) |-> ret.rows[i].customer_id])
        /\ \A cid \in DOMAIN customers :
              (\E i \in 1..Len(ret.rows) : ret.rows[i].customer_id = cid)
                  <=> PaidInvoices(cid) # {}
        /\ \A i \in 1..Len(ret.rows) :
              LET row == ret.rows[i]
                  paid == PaidInvoices(row.customer_id)
              IN  /\ row.total_spent =
                        FSum([x \in paid |-> invoices[x].total])
                  /\ row.total_invoices = Cardinality(paid)
                  /\ row.total_invoices >= 1
                  /\ row.items_bought =
                        FSum([x \in paid |->
                                FSum([y \in 1..Len(invoices[x].items) |->
                                        invoices[x].items[y].quantity])])
                  /\ row.average.d >= 1
                  /\ row.average.n * row.total_invoices =
                        row.total_spent * row.average.d
        /\ invoices = C4_Example =>
              ret.rows = <<[customer_id |-> "C1", name |-> "Ann",
                            total_spent |-> 200, total_invoices |-> 2,
                            items_bought |-> 3, average |-> FromInt(100)]>>

C4_Witness ==
    /\ call = "generate_customer_analysis_report"
    /\ invoices = C4_Example
    /\ Len(ret.rows) = 1
    /\ ret.rows[1].total_spent = 200
    /\ ret.rows[1].average = FromInt(100)

\* C5: a call of either report leaves products, customers, invoices and
\* users as they are, and the same report called again returns what it
\* returned before.
C5_ReportsPureReads ==
    [][ /\ UNCHANGED <<products, customers, invoices, users>>
        /\ (call # "__init__" /\ call' = call) => ret' = ret ]_vars

C5_Witness ==
    /\ call = "generate_customer_analysis_report"
    /\ Len(invoices) = 2
    /\ Len(ret.rows) = 2
    /\ products = LoadedProducts
    /\ \E i \in 1..Len(invoices) : invoices[i].status = "PAID"

-----------------------------------------------------------------------------
(* Authentication and authorization.                                       *)

Role_get_permissions_StaffReports(role) ==
    CASE role = "admin" -> {"all"}
      [] role = "manager" ->
             {"read", "write", "create_invoice", "view_reports"}
      [] role = "staff" -> {"read", "create_invoice", "view_reports"}
      [] OTHER -> {}

\* permissions.get(role, set())
Role_get_permissions(role) ==
    CASE role = "admin" -> {"all"}
      [] role = "manager" ->
             {"read", "write", "create_invoice", "view_reports"}
      [] role = "staff" -> {"read", "create_invoice"}
      [] OTHER -> {}

check_permission(user, permission) ==
    IF "all" \in Role_get_permissions(user.role) THEN TRUE
    ELSE permission \in Role_get_permissions(user.role)

User_verify_password(self, password) ==
    User_hash_password(password) = self.password_hash

authenticate_user_AnyPassword(username, password) ==
    IF username \in DOMAIN users THEN username ELSE None

\* The User found is modelled by its key in self.users.
authenticate_user(username, password) ==
    IF username \in DOMAIN users
       /\ User_verify_password(users[username], password)
    THEN username
    ELSE None

\* A call system.check_permission(user, permission) about to run.
InitPermission ==
    /\ NoProgram
    /\ call \in [user : {User(n, "pw", r) :
                            n \in {"alice", "bob"},
                            r \in {"admin", "manager", "staff", "guest", ""}},
                  permission : {"read", "write", "create_invoice",
                                "view_reports", "all", "delete", ""}]
    /\ pc = "check_permission"
    /\ price = FromInt(0)
    /\ rule_i = 0
    /\ ret = FALSE

call_check_permission ==
    /\ pc = "check_permission"
    /\ ret' = check_permission(call.user, call.permission)
    /\ pc' = "check_permission:returned"
    /\ UNCHANGED <<system, current_user, stdin, stdout, files, call, price,
                   rule_i>>

NextPermission == call_check_permission

SpecPermission == InitPermission /\ [][NextPermission]_vars

\* C9: admin is granted every action; a manager is granted read, write,
\* create_invoice and view_reports and nothing else, a staff user read and
\* create_invoice and nothing else, and a role that is not in the table is
\* granted nothing.
C9_AccessGate ==
    pc = "check_permission:returned" =>
        ret = CASE call.user.role = "admin" -> TRUE
                [] call.user.role = "manager" ->
                       call.permission \in {"read", "write", "create_invoice",
                                            "view_reports"}
                [] call.user.role = "staff" ->
                       call.permission \in {"read", "create_invoice"}
                [] OTHER -> FALSE

C9_Witness ==
    /\ pc = "check_permission:returned"
    /\ call.user.role = "admin"
    /\ call.permission = "delete"
    /\ ret = TRUE

-----------------------------------------------------------------------------
(* The reports and exports of the menu.                                    *)

\* self.products.values(): the products, in the order of the dict, which is
\* modelled as one order of its keys.
products_values ==
    LET keys == SeqOf(DOMAIN products)
    IN  [i \in 1..Len(keys) |-> products[keys[i]]]

\* generate_inventory_report(): a row for every product, with its flag
\* "at or below the reorder level".
generate_inventory_report ==
    Returned([i \in 1..Len(products_values) |->
                LET p == products_values[i]
                IN  [product_id |-> p.id, name |-> p.name,
                     quantity |-> p.quantity, price |-> p.price,
                     category |-> p.category,
                     below_reorder |-> p.quantity <= p.reorder_level]])

\* generate_sales_report(start_date, end_date): the PAID invoices paid
\* within [start_date, end_date]; a range that ends before it starts fails.
generate_sales_report(start_date, end_date) ==
    IF start_date > end_date THEN Raised("InvalidRangeError")
    ELSE LET sold == {i \in 1..Len(invoices) :
                         /\ invoices[i].status = "PAID"
                         /\ invoices[i].paid_at >= start_date
                         /\ invoices[i].paid_at <= end_date}
         IN  Returned(<<[total_revenue |->
                             FSum([i \in sold |-> invoices[i].total]),
                         total_units_sold |->
                             FSum([i \in sold |->
                                     SumQuantities(invoices[i].items)]),
                         invoice_count |-> Cardinality(sold)]>>)

\* DataExporter.to_csv: the files after the call
DataExporter_to_csv(data, filename) ==
    IF data = << >> THEN files
    ELSE (filename :>
            [fieldnames |-> <<"id", "name", "quantity", "price", "category">>,
             rows |-> data]) @@ files

\* DataExporter.to_pdf: the files after the call
DataExporter_to_pdf(title, content, filename) ==
    (filename :> [title |-> title, content |-> content]) @@ files

\* export_inventory_report(format): the files after the call
export_inventory_report(format) ==
    LET data == [i \in 1..Len(products_values) |->
                    LET p == products_values[i]
                    IN  [id |-> p.id, name |-> p.name,
                         quantity |-> p.quantity, price |-> p.price,
                         category |-> p.category]]
    IN  IF format = "csv"
        THEN DataExporter_to_csv(data, "inventory_report.csv")
        ELSE IF format = "pdf"
        THEN DataExporter_to_pdf("Inventory Report",
                                 generate_inventory_report,
                                 "inventory_report.pdf")
        ELSE files

-----------------------------------------------------------------------------
(* main().                                                                 *)

Say(text) == [print |-> text]
Show(report, value) == [print |-> report, value |-> value]
Menu == Say("Inventory and Invoice Management System")

NoInput ==
    [username |-> "", password |-> "", choice |-> "", subchoice |-> "",
     start_date |-> 0, end_date |-> 0]

\* What the user may type.
Usernames == DOMAIN LoadedUsers \cup {"mallory"}
Passwords == {"pw-a", "pw-b", "pw-c", "pw-d", "guess"}
Choices == {"1", "2", "3", "4", "5", "6", "7", "8"}
SubChoices == {"1", "2", "3", "4", "5"}
Dates == {1, 2}

\* The invoices of the system the menu runs on.
SampleInvoices ==
    <<Invoice("C1", "PAID", <<InvoiceItem("P1", 2, 150)>>, 1),
      Invoice("C2", "DRAFT", <<InvoiceItem("P2", 1, 50)>>, 0),
      Invoice("C1", "PAID", <<InvoiceItem("P2", 1, 50)>>, 2)>>

\* system = InventorySystem(); current_user = None: a system with nothing
\* but its users, or one with a catalogue, customers and invoices.
Init ==
    /\ \/ /\ products = << >>
          /\ customers = << >>
          /\ invoices = << >>
       \/ /\ products = LoadedProducts
          /\ customers = LoadedCustomers
          /\ invoices = SampleInvoices
    /\ users = LoadedUsers
    /\ current_user = None
    /\ pc = "main:214"
    /\ stdin = NoInput
    /\ stdout = << >>
    /\ files = << >>
    /\ call = "main"
    /\ price = FromInt(0)
    /\ rule_i = 0
    /\ ret = FALSE

\* lines 214-221: no user is logged in
main_login ==
    /\ pc = "main:214"
    /\ current_user = None
    /\ \E username \in Usernames, password \in Passwords :
         /\ stdin' = [NoInput EXCEPT !.username = username,
                                     !.password = password]
         /\ current_user' = authenticate_user(username, password)
         /\ IF authenticate_user(username, password) = None
            THEN /\ stdout' = <<Say("Login Required"),
                                Say("Invalid credentials!")>>
                 /\ pc' = "main:214"
            ELSE /\ stdout' = <<Say("Login Required")>>
                 /\ pc' = "main:223"
    /\ UNCHANGED <<system, files, call, price, rule_i, ret>>

\* line 214: a user is logged in
main_logged_in ==
    /\ pc = "main:214"
    /\ current_user # None
    /\ stdin' = NoInput
    /\ stdout' = << >>
    /\ pc' = "main:223"
    /\ UNCHANGED <<system, current_user, files, call, price, rule_i, ret>>

\* lines 223-251: choice 4 of a user with view_reports
main_reports ==
    /\ pc = "main:223"
    /\ check_permission(users[current_user], "view_reports")
    /\ \E subchoice \in SubChoices, start_date \in Dates, end_date \in Dates :
         LET dated == subchoice = "2"
             report ==
                 CASE subchoice = "1" -> generate_inventory_report
                   [] subchoice = "2" ->
                          generate_sales_report(start_date, end_date)
                   [] subchoice = "3" -> generate_product_performance_report
                   [] subchoice = "4" -> generate_customer_analysis_report
                   [] OTHER -> Returned(<< >>)
         IN  /\ stdin' = [NoInput EXCEPT
                             !.choice = "4", !.subchoice = subchoice,
                             !.start_date = IF dated THEN start_date ELSE 0,
                             !.end_date = IF dated THEN end_date ELSE 0]
             /\ IF subchoice \notin {"1", "2", "3", "4"}
                THEN /\ stdout' = <<Menu, Say("Reports")>>
                     /\ pc' = "main:214"
                ELSE IF report.raised # None
                THEN /\ stdout' = <<Menu, Say("Reports"),
                                    Say(report.raised)>>
                     /\ pc' = "main:raised"
                ELSE /\ stdout' = <<Menu, Say("Reports"),
                                    Show("report", report.rows)>>
                     /\ pc' = "main:214"
    /\ UNCHANGED <<system, current_user, files, call, price, rule_i, ret>>

\* lines 223-232 and 253-263: choice 5 of a user with view_reports
main_export ==
    /\ pc = "main:223"
    /\ check_permission(users[current_user], "view_reports")
    /\ \E subchoice \in SubChoices :
         /\ stdin' = [NoInput EXCEPT !.choice = "5",
                                     !.subchoice = subchoice]
         /\ IF subchoice \in {"1", "2"}
            THEN /\ files' = export_inventory_report(
                                 IF subchoice = "1" THEN "csv" ELSE "pdf")
                 /\ stdout' = <<Menu, Say("Export Data"),
                                Say("Report exported successfully!")>>
            ELSE /\ files' = files
                 /\ stdout' = <<Menu, Say("Export Data")>>
    /\ pc' = "main:214"
    /\ UNCHANGED <<system, current_user, call, price, rule_i, ret>>

\* lines 223-232 and 265-266: choice 6
main_logout ==
    /\ pc = "main:223"
    /\ stdin' = [NoInput EXCEPT !.choice = "6"]
    /\ stdout' = <<Menu>>
    /\ current_user' = None
    /\ pc' = "main:214"
    /\ UNCHANGED <<system, files, call, price, rule_i, ret>>

\* lines 223-232 and 268-269: choice 7
main_exit ==
    /\ pc = "main:223"
    /\ stdin' = [NoInput EXCEPT !.choice = "7"]
    /\ stdout' = <<Menu>>
    /\ pc' = "main:exited"
    /\ UNCHANGED <<system, current_user, files, call, price, rule_i, ret>>

\* lines 223-269: a choice that no branch of the if takes
main_no_branch ==
    /\ pc = "main:223"
    /\ \E choice \in Choices :
         /\ choice \notin {"6", "7"}
         /\ choice \in {"4", "5"} =>
               ~check_permission(users[current_user], "view_reports")
         /\ stdin' = [NoInput EXCEPT !.choice = choice]
    /\ stdout' = <<Menu>>
    /\ pc' = "main:214"
    /\ UNCHANGED <<system, current_user, files, call, price, rule_i, ret>>

Next ==
    \/ main_login
    \/ main_logged_in
    \/ main_reports
    \/ main_export
    \/ main_logout
    \/ main_exit
    \/ main_no_branch

Spec == Init /\ [][Next]_vars

\* The user of current_user lacks view_reports.
Unauthorized ==
    /\ current_user # None
    /\ ~check_permission(users[current_user], "view_reports")

\* C8: when a logged-in user without view_reports has chosen Reports (4) or
\* Export (5), the step shows a failure: it prints something besides the
\* menu.
C8_PermissionFailureShown ==
    ( /\ pc = "main:214"
      /\ stdin.choice \in {"4", "5"}
      /\ Unauthorized ) =>
        \E i \in 1..Len(stdout) : stdout[i] # Menu

\* The password each user was created with.
C10_Password ==
    "alice" :> "pw-a" @@ "bob" :> "pw-b" @@ "carol" :> "pw-c"
    @@ "dave" :> "pw-d"

C10_GoodLogin(input) ==
    /\ input.username \in DOMAIN C10_Password
    /\ input.password = C10_Password[input.username]

\* A step has printed a report or announced an export.
C10_Produced ==
    \E i \in 1..Len(stdout) :
        stdout[i].print \in {"report", "Report exported successfully!"}

\* C10: a report is printed, and a file is written, only by a step of a
\* logged-in user who has view_reports; current_user is set only by a
\* login with a known username and its password, and a login that fails
\* leaves it None; Logout clears current_user, and the menu is shown and a
\* choice read only while a user is logged in.
C10_Gated ==
    /\ [](C10_Produced =>
            /\ current_user \in DOMAIN users
            /\ users[current_user].role \in {"admin", "manager"})
    /\ [](pc = "main:223" => current_user \in DOMAIN users)
    /\ [](stdin.choice # "" /\ stdin.choice # "6" =>
            current_user \in DOMAIN users)
    /\ [][ /\ files' # files =>
               /\ pc = "main:223"
               /\ current_user \in DOMAIN users
               /\ users[current_user].role \in {"admin", "manager"}
               /\ current_user' = current_user
           /\ (current_user' # current_user /\ current_user' # None) =>
               /\ pc = "main:214"
               /\ C10_GoodLogin(stdin')
               /\ current_user' = stdin'.username
           /\ (pc = "main:214" /\ current_user = None
                 /\ ~C10_GoodLogin(stdin')) =>
               /\ current_user' = None
               /\ pc' = "main:214"
           /\ stdin'.choice = "6" =>
               /\ current_user' = None
               /\ pc' = "main:214"
         ]_vars

C10_Witness ==
    /\ pc = "main:214"
    /\ current_user = "bob"
    /\ stdin.choice = "4"
    /\ stdin.subchoice = "3"
    /\ C10_Produced
    /\ "inventory_report.csv" \in DOMAIN files

=============================================================================
